---- MODULE Spec2Model ----
(***************************************************************************)
(* Model of app.py: the POST /analyze handler and its helpers              *)
(* (_pick_frame, _ema, _rsi, _tech_snapshot, _fallback_comment).           *)
(*                                                                         *)
(* Conventions                                                             *)
(*  - A Python value is a record [t |-> tag, v |-> payload]; None has tag  *)
(*    "none".  A dict is a TLA+ function whose DOMAIN is its key set.      *)
(*  - A string that the code transforms (upper, strip) is a tuple of       *)
(*    one-character strings.                                               *)
(*  - A float is a record [isna |-> BOOLEAN, n |-> Int, d |-> Int]: the    *)
(*    rational n/d (d > 0), or NaN.  Arithmetic is exact, so rounding      *)
(*    error of IEEE doubles is outside the model; the EMA alone is kept    *)
(*    in fixed point (see _ema).                                           *)
(*  - Time is counted in hours; a timedelta's .days is the floor of the    *)
(*    hour difference divided by 24.                                       *)
(*  - Request values have the types the docstring of analyze gives them:   *)
(*    the symbol and the contract's fields are strings, null or absent.    *)
(*  - yf.download labels its rows by candle timestamps and gives one       *)
(*    column per price field.                                              *)
(***************************************************************************)
EXTENDS Integers, Sequences, FiniteSets, TLC

VARIABLES
    pc,             \* position of the request inside analyze()
    config,         \* process-wide OPENAI_OK flag and OPENAI_API_KEY presence
    now,            \* what datetime.now() reads, in hours
    data,           \* request.json
    symbol,         \* normalised symbol
    contract,       \* data.get("contract") or {}
    frame,          \* (interval, period) from _pick_frame
    fetched,        \* what yf.download gave back (history of the call)
    df,             \* df.dropna().tail(120), index labels kept
    tech,           \* _tech_snapshot(df)
    candles_dict,   \* df.reset_index().tail(50).to_dict("records")
    fallback_text,  \* _fallback_comment(...)
    text,           \* the commentary chosen for the response
    response,       \* what the caller receives
    log             \* calls made so far in this request, in order

vars == <<pc, config, now, data, symbol, contract, frame, fetched, df, tech,
          candles_dict, fallback_text, text, response, log>>

-----------------------------------------------------------------------------
(* Bounds of the model *)

\* Expirations range from MaxPast days before to MaxAhead days after day 0.
MaxPast == 2
MaxAhead == 16
\* Longest close series handed to _tech_snapshot on its own.
MaxLen == 17
\* Rows a fetch returns beyond the 120 that analyze keeps.
MaxExtra == 2

-----------------------------------------------------------------------------
(* Python values *)

PyNone == [t |-> "none", v |-> <<>>]
PyStr(s) == [t |-> "str", v |-> s]

PyDict(d) == [t |-> "dict", v |-> d]

\* Python truthiness: None, "" and {} are falsy.
Truthy(x) == x.t \in {"str", "dict"} /\ DOMAIN x.v # {}

\* `a or b`
Or(a, b) == IF Truthy(a) THEN a ELSE b

\* dict.get(key) : None when the key is absent.
Get(dict, key) == IF key \in DOMAIN dict THEN dict[key] ELSE PyNone

\* dict.get(key, dflt) : dflt only when the key is absent.
GetDefault(dict, key, dflt) == IF key \in DOMAIN dict THEN dict[key] ELSE dflt

Whitespace == {" "}

UpperChar(c) ==
    CASE c = "a" -> "A"
      [] c = "b" -> "B"
      [] c = "c" -> "C"
      [] c = "l" -> "L"
      [] c = "p" -> "P"
      [] c = "t" -> "T"
      [] c = "u" -> "U"
      [] c = "y" -> "Y"
      [] OTHER -> c

\* str.upper()
Upper(s) == [i \in 1..Len(s) |-> UpperChar(s[i])]

RECURSIVE LStrip(_)
LStrip(s) ==
    IF s # <<>> /\ Head(s) \in Whitespace THEN LStrip(Tail(s)) ELSE s

RECURSIVE RStrip(_)
RStrip(s) ==
    IF s # <<>> /\ s[Len(s)] \in Whitespace
    THEN RStrip(SubSeq(s, 1, Len(s) - 1))
    ELSE s

StripNoop(s) == s

\* str.strip()
Strip(s) == LStrip(RStrip(s))

\* The characters of a string, written out as one string.
RECURSIVE Join(_)
Join(s) == IF s = <<>> THEN "" ELSE Head(s) \o Join(Tail(s))

-----------------------------------------------------------------------------
(* _pick_frame *)

\* An ISO-8601 string denotes a day and an hour of that day, with or without
\* a UTC offset; any other string has fmt "other".
IsoStr(day, hour, tz) ==
    PyStr([fmt |-> "iso", day |-> day, hour |-> hour, tz |-> tz])
OtherStr(what) == PyStr([fmt |-> what, day |-> 0, hour |-> 0, tz |-> FALSE])

\* datetime.fromisoformat: TypeError for a non-string, ValueError for a
\* string that is no ISO date; otherwise a datetime, aware iff the string
\* carries an offset.
FromIsoformat(x) ==
    IF x.t # "str" THEN [ok |-> FALSE, exc |-> "TypeError", d |-> x.v]
    ELSE IF x.v.fmt # "iso" THEN [ok |-> FALSE, exc |-> "ValueError", d |-> x.v]
    ELSE [ok |-> TRUE, exc |-> "", d |-> x.v]

\* d - datetime.now(): now is naive, so an aware d raises TypeError.
SubNow(d, nowHours) ==
    IF d.tz THEN [ok |-> FALSE, exc |-> "TypeError", hours |-> 0]
    ELSE [ok |-> TRUE, exc |-> "", hours |-> (24 * d.day + d.hour) - nowHours]

\* timedelta.days: whole days, rounded towards minus infinity.
TimedeltaDays(hours) == hours \div 24

\* The try block of _pick_frame: any exception leaves days = 10.
DaysUntil(expire_iso, nowHours) ==
    LET parsed == FromIsoformat(expire_iso)
        delta == SubNow(parsed.d, nowHours)
    IN IF parsed.ok /\ delta.ok THEN TimedeltaDays(delta.hours) ELSE 10

FrameOfDays(days) ==
    IF days <= 2 THEN <<"5m", "5d">>
    ELSE IF days <= 7 THEN <<"15m", "7d">>
    ELSE IF days <= 14 THEN <<"1h", "1mo">>
    ELSE <<"4h", "3mo">>

PickFrame(expire_iso, nowHours) == FrameOfDays(DaysUntil(expire_iso, nowHours))

-----------------------------------------------------------------------------
(* Floats, Series and DataFrames *)

NaN == [isna |-> TRUE, n |-> 0, d |-> 1]
F(k) == [isna |-> FALSE, n |-> k, d |-> 1]
Ratio(n, d) == [isna |-> FALSE, n |-> n, d |-> d]

\* Arithmetic propagates NaN; denominators stay positive.
FAdd(a, b) ==
    IF a.isna \/ b.isna THEN NaN ELSE Ratio(a.n * b.d + b.n * a.d, a.d * b.d)
FSub(a, b) ==
    IF a.isna \/ b.isna THEN NaN ELSE Ratio(a.n * b.d - b.n * a.d, a.d * b.d)
\* The divisors of _rsi are never zero (a zero mean loss is replaced by NaN
\* first, and 1 + rs >= 1), so x/0 is left as NaN here.
FDiv(a, b) ==
    IF a.isna \/ b.isna \/ b.n = 0 THEN NaN ELSE Ratio(a.n * b.d, a.d * b.n)

\* Comparisons with NaN are False.
FGt(a, b) == ~a.isna /\ ~b.isna /\ a.n * b.d > b.n * a.d
FLt(a, b) == ~a.isna /\ ~b.isna /\ a.n * b.d < b.n * a.d
FGe(a, b) == ~a.isna /\ ~b.isna /\ a.n * b.d >= b.n * a.d
FLe(a, b) == ~a.isna /\ ~b.isna /\ a.n * b.d <= b.n * a.d

\* An index label: a candle timestamp ("ts") or an integer position ("pos").
Ts(k) == [kind |-> "ts", k |-> k]
Pos(k) == [kind |-> "pos", k |-> k]

\* A DataFrame is the sequence of its rows [label, Open, Close]; a Series is
\* [index |-> labels, values |-> floats].
Column(frame_, name) ==
    [index |-> [i \in 1..Len(frame_) |-> frame_[i].label],
     values |-> [i \in 1..Len(frame_) |-> frame_[i][name]]]

DropnaKeepAll(frame_) == frame_

\* DataFrame.dropna(): rows with a NaN in any column go.
Dropna(frame_) == SelectSeq(frame_, LAMBDA r : ~r.Open.isna /\ ~r.Close.isna)

\* .tail(k) and [-k:] : the last k elements, all of them when there are fewer.
TailRows(s, k) == SubSeq(s, (IF Len(s) > k THEN Len(s) - k ELSE 0) + 1, Len(s))

\* DataFrame.reset_index().to_dict(orient="records"): the label becomes an
\* ordinary field of each flat record.
ToRecords(frame_) ==
    [i \in 1..Len(frame_) |->
        [Datetime |-> frame_[i].label, Open |-> frame_[i].Open,
         Close |-> frame_[i].Close]]

-----------------------------------------------------------------------------
(* _ema, _rsi, _tech_snapshot *)

\* One step of the recurrence of ewm(span, adjust=False):
\* y[i] = (2*x[i] + (span-1)*y[i-1]) / (span+1), kept in thousandths and
\* rounded down.
EmaStep(x, span, prev) == (2 * 1000 * x.n + (span - 1) * prev) \div (span + 1)

\* The steps lo..hi applied in order to y.  The range is split in halves and
\* the left half is evaluated before the right one is entered, which keeps
\* the evaluation shallow.
RECURSIVE EmaFold(_, _, _, _, _)
EmaFold(values, span, lo, hi, y) ==
    IF lo > hi THEN y
    ELSE IF lo = hi THEN EmaStep(values[lo], span, y)
    ELSE LET mid == (lo + hi) \div 2
             left == EmaFold(values, span, lo, mid, y)
         IN IF left \in Int
            THEN EmaFold(values, span, mid + 1, hi, left)
            ELSE left

\* Series.ewm(span, adjust=False).mean() at position i: seeded by the first
\* value; the inputs hold no NaN (dropna ran before).
EmaMilli(values, span, i) == EmaFold(values, span, 2, i, 1000 * values[1].n)

Ema(s, span) ==
    [index |-> s.index,
     values |-> [i \in 1..Len(s.values) |->
                    Ratio(EmaMilli(s.values, span, i), 1000)]]

\* close.diff(): NaN first, then the step from the previous close.
Diff(values) ==
    [i \in 1..Len(values) |->
        IF i = 1 THEN NaN ELSE FSub(values[i], values[i - 1])]

\* np.where(delta > 0, delta, 0.0) and np.where(delta < 0, -delta, 0.0):
\* the leading NaN compares False and becomes 0.0.
Gain(delta) ==
    [i \in 1..Len(delta) |-> IF FGt(delta[i], F(0)) THEN delta[i] ELSE F(0)]
Loss(delta) ==
    [i \in 1..Len(delta) |->
        IF FLt(delta[i], F(0)) THEN FSub(F(0), delta[i]) ELSE F(0)]

RECURSIVE SumUpTo(_, _, _)
SumUpTo(values, lo, hi) ==
    IF hi < lo THEN F(0) ELSE FAdd(SumUpTo(values, lo, hi - 1), values[hi])

\* Series.rolling(period).mean(): NaN until the window holds period values.
RollingMean(values, period) ==
    [i \in 1..Len(values) |->
        IF i < period THEN NaN
        ELSE FDiv(SumUpTo(values, i - period + 1, i), F(period))]

\* Series.replace(0, np.nan)
ReplaceZero(values) ==
    [i \in 1..Len(values) |->
        IF ~values[i].isna /\ values[i].n = 0 THEN NaN ELSE values[i]]

\* pd.Series(series, index=labels): the data is itself a Series carrying the
\* default positions 0..n-1 as labels, so it is re-indexed by label: a label
\* that is none of those positions gets NaN.
Reindex(values, labels) ==
    [i \in 1..Len(labels) |->
        IF labels[i].kind = "pos" /\ labels[i].k \in 0..(Len(values) - 1)
        THEN values[labels[i].k + 1]
        ELSE NaN]

Rsi(close, period) ==
    LET delta == Diff(close.values)
        roll_up == RollingMean(Gain(delta), period)
        roll_down == RollingMean(Loss(delta), period)
        rs == [i \in 1..Len(delta) |->
                  FDiv(roll_up[i], ReplaceZero(roll_down)[i])]
        rsi == [i \in 1..Len(delta) |->
                   FSub(F(100), FDiv(F(100), FAdd(F(1), rs[i])))]
    IN [index |-> close.index, values |-> Reindex(rsi, close.index)]

RsiZoneNegated(rsi) ==
    IF ~FLt(rsi, F(70)) THEN "overbought"
    ELSE IF ~FGt(rsi, F(30)) THEN "oversold"
    ELSE "neutral"

\* "overbought" if rsi >= 70 else "oversold" if rsi <= 30 else "neutral"
RsiZone(rsi) ==
    IF FGe(rsi, F(70)) THEN "overbought"
    ELSE IF FLe(rsi, F(30)) THEN "oversold"
    ELSE "neutral"

\* bool(close > ema) if not isna(ema) else None
Above(close, ema) ==
    IF ema.isna THEN "None" ELSE IF FGt(close, ema) THEN "True" ELSE "False"

\* _tech_snapshot: .iloc[-1] of an empty Series raises IndexError.
TechSnapshot(frame_) ==
    IF Len(frame_) = 0 THEN [ok |-> FALSE, exc |-> "IndexError", info |-> <<>>]
    ELSE
      LET close == Column(frame_, "Close")
          last == Len(frame_)
          ema20 == Ema(close, 20).values[last]
          ema50 == Ema(close, 50).values[last]
          rsi14 == Rsi(close, 14).values[last]
      IN [ok |-> TRUE, exc |-> "",
          info |-> [last_close |-> close.values[last],
                    ema20 |-> ema20,
                    ema50 |-> ema50,
                    rsi14 |-> rsi14,
                    above_ema20 |-> Above(close.values[last], ema20),
                    above_ema50 |-> Above(close.values[last], ema50),
                    rsi_zone |-> RsiZone(rsi14)]]

-----------------------------------------------------------------------------
(* _fallback_comment *)

\* A flag is "True", "False" or "None"; only "True" is truthy.
BiasEither(above_ema20, above_ema50) ==
    IF above_ema20 = "True" \/ above_ema50 = "True" THEN "bullish"
    ELSE IF above_ema20 # "True" /\ above_ema50 # "True" THEN "bearish"
    ELSE "neutral"

\* bias: the source's three Arabic words, here bullish / bearish / neutral.
Bias(above_ema20, above_ema50) ==
    IF above_ema20 = "True" /\ above_ema50 = "True" THEN "bullish"
    ELSE IF above_ema20 # "True" /\ above_ema50 # "True" THEN "bearish"
    ELSE "neutral"

RsiNote(rsi_zone) ==
    CASE rsi_zone = "overbought" -> "RSI high (overbought) -> possible correction."
      [] rsi_zone = "oversold" -> "RSI low (oversold) -> possible rebound."
      [] rsi_zone = "neutral" -> "RSI neutral."

\* f"{x:.2f}" of a non-negative float, rounded half up to hundredths.
Fmt2f(x) ==
    LET cents == (200 * x.n + x.d) \div (2 * x.d)
        frac == cents % 100
    IN ToString(cents \div 100) \o "." \o
       (IF frac < 10 THEN "0" ELSE "") \o ToString(frac)

PyBool(b) == IF b THEN "True" ELSE "False"

FieldOrKeyDefault(dict, key, dflt) == GetDefault(dict, key, PyStr(dflt))

\* (contract.get(key) or dflt)
FieldOr(dict, key, dflt) == Or(Get(dict, key), PyStr(dflt))

\* x.upper(): AttributeError when x is None.
UpperOf(x) ==
    IF x.t = "str" THEN [ok |-> TRUE, exc |-> "", v |-> Upper(x.v)]
    ELSE [ok |-> FALSE, exc |-> "AttributeError", v |-> <<>>]

\* What an f-string prints for x, as a tuple of characters.
Fmt(x) == IF x.t = "str" THEN x.v ELSE <<"N", "o", "n", "e">>

\* The returned f-string over its substituted values p; the literal text is
\* an English gloss of the source's.
Template(p) ==
    "Quick analysis (" \o Join(p.symbol) \o " | " \o p.interval \o ")\n"
    \o "- Technical bias: " \o p.bias \o ". Last close "
    \o Fmt2f(p.last_close) \o ".\n"
    \o "- EMA20/50: above them? " \o p.above_ema20 \o "/" \o p.above_ema50
    \o ".\n"
    \o "- " \o p.rsi_note \o "\n"
    \o "- Contract: " \o Join(p.typ) \o " " \o Join(p.side) \o ", strike "
    \o Join(p.strike) \o ", IV=" \o Join(p.iv) \o ".\n"
    \o "- Note: if "
    \o PyBool(p.typ = <<"C", "A", "L", "L">> /\ p.bias = "bullish")
    \o " the alignment is positive, otherwise caution.\n"
    \o "Automatic fallback summary, used when the language model is absent."

\* _fallback_comment: the text, or the exception that leaves it.
FallbackComment(sym, interval, contract_, tech_) ==
    LET side == UpperOf(FieldOr(contract_, "Side", <<>>))
        typ == UpperOf(FieldOr(contract_, "Type", <<>>))
        iv == FieldOr(contract_, "IV", <<"-">>)
        strike == FieldOr(contract_, "Strike", <<"-">>)
    IN IF ~side.ok \/ ~typ.ok
       THEN [ok |-> FALSE, exc |-> "AttributeError", text |-> ""]
       ELSE [ok |-> TRUE, exc |-> "",
             text |-> Template(
                 [symbol |-> sym,
                  interval |-> interval,
                  bias |-> Bias(tech_.above_ema20, tech_.above_ema50),
                  last_close |-> tech_.last_close,
                  above_ema20 |-> tech_.above_ema20,
                  above_ema50 |-> tech_.above_ema50,
                  rsi_note |-> RsiNote(tech_.rsi_zone),
                  typ |-> typ.v,
                  side |-> side.v,
                  strike |-> Fmt(strike),
                  iv |-> Fmt(iv)])]

-----------------------------------------------------------------------------
(* analyze: one action per step of the handler *)

NoResponse == [kind |-> "none", status |-> 0, body |-> <<>>]
Json(status, body) == [kind |-> "json", status |-> status, body |-> body]
\* An exception that leaves the view function: the framework answers with
\* its own error page, not with a JSON body of the handler.
Unhandled(exc) == [kind |-> "unhandled", status |-> 500, body |-> exc]

Called(name, result, value) == [call |-> name, result |-> result, value |-> value]

\* Lines 81-85: read the body, normalise the symbol, reject an empty one.
Validate ==
    /\ pc = "start"
    /\ LET body == Or(data, PyDict(<<>>)).v
           sym == Strip(Upper(Or(Get(body, "symbol"), PyStr(<<>>)).v))
       IN /\ symbol' = sym
          /\ contract' = Or(Get(body, "contract"), PyDict(<<>>)).v
          /\ IF sym = <<>>
             THEN /\ response' = Json(400, [error |-> "symbol is required"])
                  /\ pc' = "done"
             ELSE /\ response' = response
                  /\ pc' = "frame"
    /\ UNCHANGED <<config, now, data, frame, fetched, df, tech, candles_dict,
                   fallback_text, text, log>>

\* Lines 87-88: expire = contract.get("Expire", ""); _pick_frame(expire).
ChooseFrame ==
    /\ pc = "frame"
    /\ frame' = PickFrame(GetDefault(contract, "Expire", OtherStr("empty")), now)
    /\ pc' = "fetch"
    /\ UNCHANGED <<config, now, data, symbol, contract, fetched, df, tech,
                   candles_dict, fallback_text, text, response, log>>

FetchFailedUnlessEmpty(res) == res.kind \in {"raise", "none"}

\* The try block of lines 91-97 ends in the except clause: yf.download
\* raised, or returned None or an empty frame (ValueError("No data")).
FetchFailed(res) ==
    res.kind \in {"raise", "none"} \/ (res.kind = "frame" /\ Len(res.rows) = 0)

FetchMessage(res) == IF res.kind = "raise" THEN res.msg ELSE "No data"

\* Lines 91-97: the market-data call and what is kept of its result.
Fetch(res) ==
    /\ pc = "fetch"
    /\ fetched' = res
    /\ log' = Append(log, Called("yf.download", res.kind, PyNone))
    /\ IF FetchFailed(res)
       THEN /\ response' = Json(500, [error |-> "failed to fetch candles: "
                                                  \o FetchMessage(res)])
            /\ df' = df
            /\ pc' = "done"
       ELSE /\ response' = response
            /\ df' = TailRows(Dropna(res.rows), 120)
            /\ pc' = "snapshot"
    /\ UNCHANGED <<config, now, data, symbol, contract, frame, tech,
                   candles_dict, fallback_text, text>>

\* Lines 100-103: the indicator snapshot, then the last 50 candles as records.
Snapshot ==
    /\ pc = "snapshot"
    /\ LET r == TechSnapshot(df)
       IN /\ log' = Append(log, Called("_tech_snapshot",
                                       IF r.ok THEN "ok" ELSE r.exc, PyNone))
          /\ IF r.ok
             THEN /\ tech' = r.info
                  /\ candles_dict' = ToRecords(TailRows(df, 50))
                  /\ response' = response
                  /\ pc' = "fallback"
             ELSE /\ tech' = tech
                  /\ candles_dict' = candles_dict
                  /\ response' = Unhandled(r.exc)
                  /\ pc' = "done"
    /\ UNCHANGED <<config, now, data, symbol, contract, frame, fetched, df,
                   fallback_text, text>>

\* Line 106: the fallback commentary, computed before the model is tried.
Fallback ==
    /\ pc = "fallback"
    /\ LET r == FallbackComment(symbol, frame[1], contract, tech)
       IN /\ log' = Append(log, Called("_fallback_comment",
                                       IF r.ok THEN "ok" ELSE r.exc, PyNone))
          /\ IF r.ok
             THEN /\ fallback_text' = r.text
                  /\ response' = response
                  /\ pc' = "commentary"
             ELSE /\ fallback_text' = fallback_text
                  /\ response' = Unhandled(r.exc)
                  /\ pc' = "done"
    /\ UNCHANGED <<config, now, data, symbol, contract, frame, fetched, df,
                   tech, candles_dict, text>>

\* Line 109: OPENAI_OK and os.getenv("OPENAI_API_KEY")
ModelConfigured(cfg) == cfg.OPENAI_OK /\ cfg.OPENAI_API_KEY

\* Lines 135-146: the completion's stripped content; any exception of the
\* call, or of reading its response, gives the fallback text.
TextOf(out, fallback) ==
    IF out.result = "ok" /\ out.content.t = "str"
    THEN Join(Strip(out.content.v))
    ELSE fallback

\* Lines 109-148: ask the remote model when it is configured.  Building the
\* prompt (lines 110-134) only formats values that exist and cannot raise.
Commentary(out) ==
    /\ pc = "commentary"
    /\ IF ModelConfigured(config)
       THEN /\ log' = Append(log, Called("chat.completions.create",
                                         out.result, out.content))
            /\ text' = TextOf(out, fallback_text)
       ELSE /\ log' = log
            /\ text' = fallback_text
    /\ pc' = "respond"
    /\ UNCHANGED <<config, now, data, symbol, contract, frame, fetched, df,
                   tech, candles_dict, fallback_text, response>>

\* Lines 150-155: the 200 response.
Respond ==
    /\ pc = "respond"
    /\ response' = Json(200, [frame_used |-> frame[1],
                              tech |-> tech,
                              analysis |-> text,
                              candles_preview |-> TailRows(candles_dict, 10)])
    /\ pc' = "done"
    /\ UNCHANGED <<config, now, data, symbol, contract, frame, fetched, df,
                   tech, candles_dict, fallback_text, text, log>>

-----------------------------------------------------------------------------
(* Inputs *)

Absent == [t |-> "absent", v |-> <<>>]

\* The dict holding the keys of f whose value is not Absent.
MkDict(f) == [k \in {j \in DOMAIN f : f[j].t # "absent"} |-> f[k]]

SymbolValues ==
    {Absent, PyNone, PyStr(<<>>), PyStr(<<" ">>), PyStr(<<" ", " ">>),
     PyStr(<<"a", "a", "p", "l">>), PyStr(<<" ", "A", "a", " ">>)}

ContractValues ==
    {Absent, PyNone, PyDict(<<>>),
     PyDict([Type |-> PyStr(<<"c", "a", "l", "l">>), Side |-> PyStr(<<"b", "u", "y">>),
             Strike |-> PyStr(<<"1", "5", "0">>), IV |-> PyStr(<<"3", "0">>),
             Expire |-> IsoStr(1, 0, FALSE)]),
     PyDict([Type |-> PyStr(<<"P", "U", "T">>), Expire |-> IsoStr(20, 0, FALSE)])}

Bodies ==
    {PyNone} \cup
    {PyDict(MkDict([symbol |-> s, contract |-> c])) :
        s \in SymbolValues, c \in ContractValues}

Configs == [OPENAI_OK : BOOLEAN, OPENAI_API_KEY : BOOLEAN]

\* Closes that step up by `up` and down by `dn` in turn, from 100.
CloseAt(shape, i) == 100 + (shape[1] - shape[2]) * (i \div 2) + shape[1] * (i % 2)

\* A fetched candle: its timestamp is its label; a cell the provider left
\* blank is NaN.
Candle(shape, i, blank) ==
    [label |-> Ts(i),
     Open |-> IF blank = "Open" THEN NaN ELSE F(CloseAt(shape, i)),
     Close |-> IF blank = "Close" THEN NaN ELSE F(CloseAt(shape, i))]

BlankOf(pattern, i, n) ==
    CASE pattern = "clean" -> "no"
      [] pattern = "all" -> "Open"
      [] pattern = "third" -> IF i % 3 = 0 THEN "Close" ELSE "no"
      [] pattern = "last" -> IF i = n THEN "Open" ELSE "no"

RowCounts == {0, 1, 9, 10, 11, 50, 51, 119} \cup (120..(120 + MaxExtra))

FetchResults ==
    {[kind |-> "raise", msg |-> "timeout", rows |-> <<>>],
     [kind |-> "none", msg |-> "", rows |-> <<>>]}
    \cup
    {[kind |-> "frame", msg |-> "",
      rows |-> [i \in 1..n |-> Candle(shape, i, BlankOf(pattern, i, n))]] :
        n \in RowCounts, shape \in {<<2, 1>>, <<-1, 1>>},
        pattern \in {"clean", "all", "third", "last"}}

ModelOutcomes ==
    {[result |-> "raise", content |-> PyNone],
     [result |-> "ok", content |-> PyNone],
     [result |-> "ok", content |-> PyStr(<<" ", "b", "u", "y", " ">>)]}

NoTech ==
    [last_close |-> NaN, ema20 |-> NaN, ema50 |-> NaN, rsi14 |-> NaN,
     above_ema20 |-> "None", above_ema50 |-> "None", rsi_zone |-> "neutral"]

NoFetch == [kind |-> "unset", msg |-> "", rows |-> <<>>]

-----------------------------------------------------------------------------
(* The handler: one request from its arrival to its response *)

Init ==
    /\ pc = "start"
    /\ config \in Configs
    /\ now = 9
    /\ data \in Bodies
    /\ symbol = <<>>
    /\ contract = <<>>
    /\ frame = <<>>
    /\ fetched = NoFetch
    /\ df = <<>>
    /\ tech = NoTech
    /\ candles_dict = <<>>
    /\ fallback_text = ""
    /\ text = ""
    /\ response = NoResponse
    /\ log = <<>>

Next ==
    \/ Validate
    \/ ChooseFrame
    \/ \E res \in FetchResults : Fetch(res)
    \/ Snapshot
    \/ Fallback
    \/ \E out \in ModelOutcomes : Commentary(out)
    \/ Respond

Spec == Init /\ [][Next]_vars

-----------------------------------------------------------------------------
(* _pick_frame on its own: every kind of expiration, at two times of day *)

Clock == {0, 9}

ExpireValues ==
    {Absent, PyNone, OtherStr("empty"), OtherStr("other")}
    \cup {IsoStr(day, hour, tz) :
            day \in (0 - MaxPast)..MaxAhead, hour \in {0, 16}, tz \in BOOLEAN}

InitFrame ==
    /\ pc = "frame"
    /\ config = [OPENAI_OK |-> FALSE, OPENAI_API_KEY |-> FALSE]
    /\ now \in Clock
    /\ data = PyNone
    /\ symbol = <<"A", "A", "P", "L">>
    /\ contract \in {MkDict([Expire |-> e]) : e \in ExpireValues}
    /\ frame = <<>>
    /\ fetched = NoFetch
    /\ df = <<>>
    /\ tech = NoTech
    /\ candles_dict = <<>>
    /\ fallback_text = ""
    /\ text = ""
    /\ response = NoResponse
    /\ log = <<>>

NextFrame == ChooseFrame

SpecFrame == InitFrame /\ [][NextFrame]_vars

-----------------------------------------------------------------------------
(* _tech_snapshot on its own: close series of every length up to MaxLen,   *)
(* labelled by timestamps, by their positions, or by shifted positions     *)

\* shape = <<up, dn, lead>>: steps of CloseAt, the first close raised by lead.
SeriesAt(shape, i) ==
    CloseAt(<<shape[1], shape[2]>>, i) + (IF i = 1 THEN shape[3] ELSE 0)

Shapes ==
    {<<1, -1, 0>>, <<-1, 1, 0>>, <<0, 0, 0>>, <<2, 1, 0>>, <<7, 3, 0>>,
     <<3, 7, 0>>, <<3, 1, 0>>, <<1, 3, 0>>, <<1, -1, 2>>, <<-1, 1, -2>>}

LabelOf(kind, i) ==
    CASE kind = "ts" -> Ts(i)
      [] kind = "pos" -> Pos(i - 1)
      [] kind = "shifted" -> Pos(i + 4)

CloseFrames ==
    {[i \in 1..n |-> [label |-> LabelOf(kind, i),
                      Open |-> F(SeriesAt(shape, i)),
                      Close |-> F(SeriesAt(shape, i))]] :
        n \in 0..MaxLen, shape \in Shapes, kind \in {"ts", "pos", "shifted"}}

InitSnapshot ==
    /\ pc = "snapshot"
    /\ config = [OPENAI_OK |-> FALSE, OPENAI_API_KEY |-> FALSE]
    /\ now = 9
    /\ data = PyNone
    /\ symbol = <<"A", "A", "P", "L">>
    /\ contract = <<>>
    /\ frame = <<"1h", "1mo">>
    /\ fetched = NoFetch
    /\ df \in CloseFrames
    /\ tech = NoTech
    /\ candles_dict = <<>>
    /\ fallback_text = ""
    /\ text = ""
    /\ response = NoResponse
    /\ log = <<>>

NextSnapshot == Snapshot

SpecSnapshot == InitSnapshot /\ [][NextSnapshot]_vars

-----------------------------------------------------------------------------
(* _fallback_comment on its own: every combination of the snapshot's flags  *)
(* and of present, null, empty and absent contract facts                    *)

FactValues(word) == {Absent, PyNone, PyStr(<<>>), PyStr(word)}

FactContracts ==
    {MkDict([Side |-> s, Type |-> t, Strike |-> k, IV |-> v]) :
        s \in FactValues(<<"b", "u", "y">>),
        t \in FactValues(<<"c", "a", "l", "l">>) \cup {PyStr(<<"P", "U", "T">>)},
        k \in FactValues(<<"1", "5", "0">>),
        v \in FactValues(<<"3", "0">>)}

\* Snapshots as _tech_snapshot assembles them (lines 57-65) from a last close
\* of 110 and indicator values that may each be NaN.
TechInputs ==
    {[last_close |-> F(110), ema20 |-> e20, ema50 |-> e50, rsi14 |-> r,
      above_ema20 |-> Above(F(110), e20), above_ema50 |-> Above(F(110), e50),
      rsi_zone |-> RsiZone(r)] :
        e20 \in {NaN, F(100), F(120)}, e50 \in {NaN, F(105), F(120)},
        r \in {NaN, F(80), F(20), F(50)}}

InitFallback ==
    /\ pc = "fallback"
    /\ config = [OPENAI_OK |-> FALSE, OPENAI_API_KEY |-> FALSE]
    /\ now = 9
    /\ data = PyNone
    /\ symbol = <<"A", "A", "P", "L">>
    /\ contract \in FactContracts
    /\ frame = <<"1h", "1mo">>
    /\ fetched = NoFetch
    /\ df = <<>>
    /\ tech \in TechInputs
    /\ candles_dict = <<>>
    /\ fallback_text = ""
    /\ text = ""
    /\ response = NoResponse
    /\ log = <<>>

NextFallback == Fallback

SpecFallback == InitFallback /\ [][NextFallback]_vars

-----------------------------------------------------------------------------
(* Properties of _pick_frame (checked under SpecFrame) *)

\* The expiration exactly as line 87 reads it from the contract.
ExpireGiven == IF "Expire" \in DOMAIN contract THEN contract["Expire"] ELSE Absent

\* An expiration that can be parsed: an ISO-8601 string, with or without
\* an offset.
Parsable(e) == e.t = "str" /\ e.v.fmt = "iso"

\* Whole days from the clock reading to the expiration, rounded down.
WholeDays(e, clock) ==
    CHOOSE k \in (0 - MaxPast - 2)..(MaxAhead + 2) :
        /\ 24 * k <= 24 * e.v.day + e.v.hour - clock
        /\ 24 * e.v.day + e.v.hour - clock < 24 * (k + 1)

FrameClaimed(days) ==
    CASE days <= 2 -> <<"5m", "5d">>
      [] 2 < days /\ days <= 7 -> <<"15m", "7d">>
      [] 7 < days /\ days <= 14 -> <<"1h", "1mo">>
      [] days > 14 -> <<"4h", "3mo">>

\* C4: _pick_frame returns the pair of the day thresholds for floor(expiration
\* - now) in whole days, and the pair of days = 10, ("1h", "1mo"), for an
\* expiration that is absent, empty or cannot be parsed.
C4_FrameFollowsWholeDays ==
    pc = "fetch" =>
        IF Parsable(ExpireGiven)
        THEN frame = FrameClaimed(WholeDays(ExpireGiven, now))
        ELSE frame = <<"1h", "1mo">>

\* Every input yields one of the four pairs; expirations without an offset
\* follow the thresholds, every other input gets the pair of days = 10.
FrameOfNaiveExpirations ==
    pc = "fetch" =>
        /\ frame \in {<<"5m", "5d">>, <<"15m", "7d">>, <<"1h", "1mo">>,
                      <<"4h", "3mo">>}
        /\ (Parsable(ExpireGiven) /\ ~ExpireGiven.v.tz)
              => frame = FrameClaimed(WholeDays(ExpireGiven, now))
        /\ (~Parsable(ExpireGiven) \/ ExpireGiven.v.tz)
              => frame = <<"1h", "1mo">>

-----------------------------------------------------------------------------
(* Properties of the handler (checked under Spec) *)

\* The symbol of the request body, None when the body or the key is missing.
SymbolGiven ==
    IF data.t = "dict" /\ "symbol" \in DOMAIN data.v THEN data.v["symbol"]
    ELSE PyNone

\* Missing, null, empty or made of whitespace only.
SymbolBlank ==
    SymbolGiven.t # "str"
    \/ \A i \in 1..Len(SymbolGiven.v) : SymbolGiven.v[i] = " "

CallsMade == {log[i].call : i \in 1..Len(log)}

\* C3: a request whose symbol is missing, null, empty or whitespace only ends
\* with the 400 validation error, and no external call is made in it.
C3_BlankSymbolRejectedBeforeAnyCall ==
    SymbolBlank =>
        /\ pc \in {"start", "done"}
        /\ log = <<>>
        /\ pc = "done" => response = Json(400, [error |-> "symbol is required"])

C3_Witness ==
    /\ pc = "done"
    /\ SymbolGiven = PyStr(<<" ", " ">>)
    /\ response.status = 400

\* The market-data call raised, or returned None or an empty frame.
FetchGaveNoData ==
    fetched.kind \in {"raise", "none"}
    \/ (fetched.kind = "frame" /\ fetched.rows = <<>>)

\* C2: when the fetch raises or returns no data the request ends there with
\* the 500 fetch error: no snapshot, no fallback commentary, no model call.
C2_FetchFailureStopsRequest ==
    FetchGaveNoData =>
        /\ pc = "done"
        /\ response.kind = "json" /\ response.status = 500
        /\ response.body.error \in {"failed to fetch candles: timeout",
                                    "failed to fetch candles: No data"}
        /\ CallsMade = {"yf.download"}
        /\ tech = NoTech /\ fallback_text = "" /\ text = ""

C2_Witness ==
    /\ pc = "done"
    /\ fetched.kind = "frame" /\ fetched.rows = <<>>
    /\ response.status = 500

\* The fetched candles with no missing field, in the order fetched.
CompleteCandles ==
    SelectSeq(fetched.rows, LAMBDA r : r.Open.isna = FALSE /\ r.Close.isna = FALSE)

Min(a, b) == IF a <= b THEN a ELSE b

\* The most recent Min(Len(s), k) elements of s, oldest first.
MostRecent(s, k) ==
    [i \in 1..Min(Len(s), k) |-> s[Len(s) - Min(Len(s), k) + i]]

\* C8: in a 200 response the indicators are those of the most recent
\* min(n,120) complete candles and candles_preview is the most recent
\* min(n,10) of them, oldest first, each a flat record; incomplete rows are
\* in neither.
C8_WindowsOfCompleteCandles ==
    (pc = "done" /\ response.status = 200) =>
        /\ df = MostRecent(CompleteCandles, 120)
        /\ response.body.tech = TechSnapshot(MostRecent(CompleteCandles, 120)).info
        /\ response.body.candles_preview =
              [i \in 1..Min(Len(CompleteCandles), 10) |->
                  LET c == MostRecent(CompleteCandles, 10)[i]
                  IN [Datetime |-> c.label, Open |-> c.Open, Close |-> c.Close]]

C8_Witness ==
    /\ pc = "done" /\ response.status = 200
    /\ Len(CompleteCandles) > 120
    /\ Len(CompleteCandles) < Len(fetched.rows)
    /\ Len(response.body.candles_preview) = 10

\* The request passed validation and the fetch try block ended without an
\* exception.
FetchSucceeded ==
    symbol # <<>> /\ fetched.kind = "frame" /\ fetched.rows # <<>>

\* The remote model was called and its answer was read without an exception.
ModelAnswered ==
    /\ log # <<>>
    /\ log[Len(log)].call = "chat.completions.create"
    /\ log[Len(log)].result = "ok"
    /\ log[Len(log)].value.t = "str"

ModelAnswer == Join(Strip(log[Len(log)].value.v))

\* C1: every request that passes validation and whose fetch succeeds is
\* answered 200; its analysis is the model's text only when a credential is
\* configured and the call succeeds, and the fallback commentary of the same
\* request in every other case.
C1_AnalysisIsModelTextOrFallback ==
    (pc = "done" /\ FetchSucceeded) =>
        /\ response.kind = "json" /\ response.status = 200
        /\ response.body.analysis =
              (IF config.OPENAI_OK /\ config.OPENAI_API_KEY /\ ModelAnswered
               THEN ModelAnswer
               ELSE fallback_text)
        /\ fallback_text # ""

\* The choice of commentary in the requests that reach it (those whose fetch
\* left at least one complete candle).
AnalysisOfAnsweredRequests ==
    (pc = "done" /\ FetchSucceeded /\ CompleteCandles # <<>>) =>
        /\ response.kind = "json" /\ response.status = 200
        /\ response.body.analysis =
              (IF config.OPENAI_OK /\ config.OPENAI_API_KEY /\ ModelAnswered
               THEN ModelAnswer
               ELSE fallback_text)
        /\ fallback_text # ""
        /\ (~(config.OPENAI_OK /\ config.OPENAI_API_KEY))
              => "chat.completions.create" \notin CallsMade

\* C10: every request ends in one of three handled outcomes: the 400
\* validation error, the 500 fetch error, or the 200 response with
\* frame_used, tech, analysis and candles_preview.
C10_EveryRequestEndsHandled ==
    pc = "done" =>
        /\ response.kind = "json"
        /\ \/ response.status = 400 /\ DOMAIN response.body = {"error"}
           \/ response.status = 500 /\ DOMAIN response.body = {"error"}
           \/ /\ response.status = 200
              /\ DOMAIN response.body =
                    {"frame_used", "tech", "analysis", "candles_preview"}

-----------------------------------------------------------------------------
(* Properties of _tech_snapshot and _rsi (checked under SpecSnapshot) *)

\* The price step into candle j.
StepInto(j) == df[j].Close.n - df[j - 1].Close.n

\* The 14 steps that end at the last candle.
LastWindow == (Len(df) - 13)..Len(df)

\* C6: with a full 14-step window the reported RSI14 lies in [0,100] when it
\* is defined, is exactly 100 when every step of the window is a gain and
\* exactly 0 when every step is a loss.
C6_RsiBoundedAndExactAtExtremes ==
    (pc = "fallback" /\ Len(df) >= 15) =>
        /\ ~tech.rsi14.isna =>
              (0 <= tech.rsi14.n /\ tech.rsi14.n <= 100 * tech.rsi14.d)
        /\ (\A j \in LastWindow : StepInto(j) > 0) =>
              (~tech.rsi14.isna /\ tech.rsi14.n = 100 * tech.rsi14.d)
        /\ (\A j \in LastWindow : StepInto(j) < 0) =>
              (~tech.rsi14.isna /\ tech.rsi14.n = 0)

\* The bound alone: a reported RSI14 lies in [0,100].
RsiWithinBounds ==
    (pc = "fallback" /\ ~tech.rsi14.isna) =>
        (0 <= tech.rsi14.n /\ tech.rsi14.n <= 100 * tech.rsi14.d)

\* C9: rsi_zone is overbought exactly when RSI14 is defined and >= 70,
\* oversold exactly when it is defined and <= 30, neutral otherwise, so it is
\* neutral whenever rsi14 is unknown; a snapshot of at least one candle is
\* built without faulting.
C9_ZoneFollowsReportedRsi ==
    /\ pc = "fallback" =>
          /\ tech.rsi_zone = "overbought"
                <=> (~tech.rsi14.isna /\ tech.rsi14.n >= 70 * tech.rsi14.d)
          /\ tech.rsi_zone = "oversold"
                <=> (~tech.rsi14.isna /\ tech.rsi14.n <= 30 * tech.rsi14.d)
          /\ tech.rsi_zone \in {"overbought", "oversold", "neutral"}
          /\ tech.rsi14.isna => tech.rsi_zone = "neutral"
    /\ pc = "done" => df = <<>>

C9_Witness ==
    /\ pc = "fallback"
    /\ Len(df) >= 15 /\ df[1].label = Pos(0)
    /\ \A j \in LastWindow : StepInto(j) > 0
    /\ tech.rsi14.isna
    /\ tech.rsi_zone = "neutral"

\* A snapshot whose RSI14 is reported and puts the zone at overbought.
OverboughtReported ==
    pc = "fallback" /\ ~tech.rsi14.isna /\ tech.rsi_zone = "overbought"

-----------------------------------------------------------------------------
(* Properties of _fallback_comment (checked under SpecFallback) *)

\* The commentary with the given bias and contract facts, the other values as
\* the request has them.
Printed(bias, facts) ==
    Template([symbol |-> symbol,
              interval |-> frame[1],
              bias |-> bias,
              last_close |-> tech.last_close,
              above_ema20 |-> tech.above_ema20,
              above_ema50 |-> tech.above_ema50,
              rsi_note |-> RsiNote(tech.rsi_zone),
              typ |-> facts.typ,
              side |-> facts.side,
              strike |-> facts.strike,
              iv |-> facts.iv])

AnyFacts ==
    [typ : {<<>>, <<"C", "A", "L", "L">>, <<"P", "U", "T">>},
     side : {<<>>, <<"B", "U", "Y">>},
     strike : {<<"-">>, <<"1", "5", "0">>},
     iv : {<<"-">>, <<"3", "0">>}]

\* The commentary exists and prints this bias.
PrintsBias(bias) ==
    pc = "commentary" /\ \E facts \in AnyFacts : fallback_text = Printed(bias, facts)

BothTrue == tech.above_ema20 = "True" /\ tech.above_ema50 = "True"
BothFalse == tech.above_ema20 = "False" /\ tech.above_ema50 = "False"
NeitherTrue == tech.above_ema20 # "True" /\ tech.above_ema50 # "True"

\* C5: the bias is bullish exactly when both flags are true, bearish exactly
\* when both are known and false, and neutral in every other case, including
\* whenever either flag is unknown.
C5_BiasNeutralWhenAFlagIsUnknown ==
    pc = "commentary" =>
        PrintsBias(IF BothTrue THEN "bullish"
                   ELSE IF BothFalse THEN "bearish"
                   ELSE "neutral")

\* C5 as amended: the bias is bullish exactly when both flags are true,
\* bearish exactly when neither flag is true (each false or unknown), and
\* neutral exactly when one flag is true and the other is not.
C5_BiasBearishWhenNoFlagIsTrue ==
    pc = "commentary" =>
        PrintsBias(IF BothTrue THEN "bullish"
                   ELSE IF NeitherTrue THEN "bearish"
                   ELSE "neutral")

C5_Witness ==
    /\ tech.above_ema20 = "None" /\ tech.above_ema50 = "None"
    /\ PrintsBias("bearish")

\* The field is absent from the contract, null or empty.
Missing(key) == key \notin DOMAIN contract \/ contract[key].t # "str" \/ contract[key].v = <<>>

\* What is printed for a contract fact: the placeholder when the field is
\* missing, its characters otherwise.
FactOr(key, placeholder) == IF Missing(key) THEN placeholder ELSE contract[key].v

\* The commentary exists and prints these contract facts.
PrintsFacts(facts) ==
    pc = "commentary"
    /\ \E bias \in {"bullish", "bearish", "neutral"} : fallback_text = Printed(bias, facts)

\* C7: the fallback commentary never faults on a contract with missing
\* fields, and each of side, type, strike and implied volatility is printed
\* as the dash "-" when that field is absent from the contract.
C7_DashForEveryAbsentFact ==
    /\ pc # "done"
    /\ pc = "commentary" =>
          PrintsFacts(
              [typ |-> IF "Type" \in DOMAIN contract
                       THEN Upper(FactOr("Type", <<>>)) ELSE <<"-">>,
               side |-> IF "Side" \in DOMAIN contract
                        THEN Upper(FactOr("Side", <<>>)) ELSE <<"-">>,
               strike |-> FactOr("Strike", <<"-">>),
               iv |-> FactOr("IV", <<"-">>)])

\* C7 as amended: the fallback commentary never faults on a contract with
\* missing fields; strike and implied volatility are printed as the dash "-"
\* when the field is absent, null or empty, while side and type are then
\* printed as the empty string.
C7_DashForStrikeAndIvOnly ==
    /\ pc # "done"
    /\ pc = "commentary" =>
          PrintsFacts(
              [typ |-> Upper(FactOr("Type", <<>>)),
               side |-> Upper(FactOr("Side", <<>>)),
               strike |-> FactOr("Strike", <<"-">>),
               iv |-> FactOr("IV", <<"-">>)])

C7_Witness ==
    /\ DOMAIN contract = {}
    /\ PrintsFacts([typ |-> <<>>, side |-> <<>>, strike |-> <<"-">>, iv |-> <<"-">>])

====
